---- MODULE Spec2Model ----
(***************************************************************************)
(* A model of the recurring job scheduler of src/components/JobScheduler   *)
(* (.tsx): the recurrence evaluator calculateNextRun, the handlers         *)
(* createJob / toggleJobStatus / deleteJob / fetchJobs, the 10-second scan *)
(* of the interval effect and the asynchronous executeJob.                  *)
(*                                                                         *)
(* Time is the number of milliseconds since the epoch, as in a JavaScript  *)
(* Date.  The local time zone is taken to be UTC (no daylight saving), and *)
(* every instant of the model lies in January 1970, so that the day of the *)
(* month is the day number plus one.  The jobs table of the store keeps    *)
(* next_run / last_run as ISO strings of millisecond precision; the model  *)
(* keeps the millisecond value such a string denotes.                      *)
(***************************************************************************)
EXTENDS Integers, Sequences, FiniteSets, Bags, TLC

\* ------------------------------------------------------------------ bounds
MaxJobs == 2
MaxTasks == 2
MaxInstant == 2
MaxLogHours == 5
MaxIter == 2
TicksPerScan == 2

\* ------------------------------------------------------- JavaScript Date
MsPerMinute == 60000
MsPerHour == 3600000
MsPerDay == 86400000
DaysPerWeek == 7
ScanPeriod == 10000
SliceEnd == 9
MsPerSecond == 1000

\* `undefined` / null of an optional numeric field (minute, hour,
\* day_of_week, next_run, last_run).
NoValue == 0 - 1

Min(a, b) == IF a <= b THEN a ELSE b

\* x || 0
OrZero(x) == IF x = NoValue THEN 0 ELSE x

getHours(t) == (t % MsPerDay) \div MsPerHour
getDate(t) == (t \div MsPerDay) + 1
\* 1970-01-01 was a Thursday (4); 0 = Sunday .. 6 = Saturday
getDay(t) == ((t \div MsPerDay) + 4) % DaysPerWeek

\* next.setMinutes(m, 0, 0): minutes set, seconds and milliseconds zeroed
setMinutes(t, m) == (t - (t % MsPerHour)) + m * MsPerMinute
\* next.setHours(h): hour set, minutes / seconds / milliseconds kept
setHours(t, h) == (t - (t % MsPerDay)) + h * MsPerHour + (t % MsPerHour)
\* next.setHours(h, m, 0, 0)
setHoursMinutes(t, h, m) == (t - (t % MsPerDay)) + h * MsPerHour + m * MsPerMinute
\* next.setDate(d): day of the month set, time of day kept
setDate(t, d) == (d - 1) * MsPerDay + (t % MsPerDay)

\* `next <= now`: the candidate is already past (or is this very instant)
PassedStrictly(next, now) == next < now
Passed(next, now) == next <= now

\* dayDiff >= 0 ? dayDiff : dayDiff + 7
DayOffsetNoSameDay(dayDiff) == IF dayDiff > 0 THEN dayDiff ELSE dayDiff + DaysPerWeek
DayOffset(dayDiff) == IF dayDiff >= 0 THEN dayDiff ELSE dayDiff + DaysPerWeek

weeklyCandidate(job, now) ==
    LET dayDiff == OrZero(job.day_of_week) - getDay(now)
        onDay == setDate(now, getDate(now) + DayOffset(dayDiff))
    IN  setHoursMinutes(onDay, OrZero(job.hour), OrZero(job.minute))

calculateNextRun(job, now) ==
    IF job.type = "hourly" THEN
        LET next == setMinutes(now, OrZero(job.minute))
        IN  IF Passed(next, now) THEN setHours(next, getHours(next) + 1) ELSE next
    ELSE IF job.type = "daily" THEN
        LET next == setHoursMinutes(now, OrZero(job.hour), OrZero(job.minute))
        IN  IF Passed(next, now) THEN setDate(next, getDate(next) + 1) ELSE next
    ELSE IF job.type = "weekly" THEN
        LET next == weeklyCandidate(job, now)
        IN  IF Passed(next, now) THEN setDate(next, getDate(next) + DaysPerWeek) ELSE next
    ELSE now


\* ------------------------------------------------------------- the state
VARIABLES
    now,            \* the wall clock, new Date()
    timerDue,       \* earliest instant of the interval's next callback
    table,          \* rows of the store's jobs table, newest created first
    nextId,         \* the id the store gives the next inserted row
    job_executions, \* rows of the store's job_executions table, per job id
    jobs,           \* useState<Job[]>: the list the scan and the buttons see
    executions,     \* useState<string[]>: the execution log
    newJob,         \* useState<Partial<Job>>: the form
    loading,        \* useState(false)
    creating,       \* the createJob call awaiting its insert (at most one)
    execs,          \* bag of executeJob calls in flight
    fetches,        \* bag of fetchJobs calls in flight
    toggles,        \* bag of toggleJobStatus calls awaiting their update
    deletes,        \* bag of deleteJob calls awaiting their delete
    fired,          \* history: the due occurrences <<id, next_run>> dispatched
    rule,           \* recurrence evaluation: the rule
    refTime,        \* recurrence evaluation: the reference time
    runs            \* recurrence evaluation: the iterated results

storeVars == <<table, nextId, job_executions>>
uiVars == <<jobs, executions, newJob, loading>>
taskVars == <<creating, execs, fetches, toggles, deletes>>
evalVars == <<rule, refTime, runs>>
vars == <<now, timerDue, storeVars, uiVars, taskVars, fired, evalVars>>

\* Thursday 1970-01-01 10:59:50.000
StartTime == 10 * MsPerHour + 59 * MsPerMinute + 5 * ScanPeriod
\* the instants the clock is read at: 10:59:50, 11:00:00, 11:00:10,
\* 11:59:50, 12:00:00, 12:00:10, 12:59:50, ...
Times ==
    { StartTime + (k \div 3) * MsPerHour + (k % 3) * ScanPeriod : k \in 0..MaxInstant }

\* setNewJob({ type: 'hourly' })
emptyForm ==
    [name |-> "", type |-> "hourly", minute |-> NoValue, hour |-> NoValue,
     day_of_week |-> NoValue]

\* what is typed into, or chosen in, the inputs of the form; an input of
\* type number gives its text, here the number it reads as, or NoValue for a
\* text parseInt makes nothing of (an emptied input)
Names == {"", "a"}
Types == {"hourly", "daily", "weekly"}
MinuteTexts == {NoValue, 30}
HourTexts == {9}
DayValues == {3}

\* parseInt(e.target.value) || 0
parseIntOrZero(text) == IF text = NoValue THEN 0 ELSE text

selectTask == [pc |-> "select", data |-> <<>>]

One(x) == SetToBag({x})
Range(s) == { s[i] : i \in DOMAIN s }
BagOfSeq(s) == [ x \in Range(s) |-> Cardinality({ i \in DOMAIN s : s[i] = x }) ]
MapSeq(s, F(_)) == [ i \in DOMAIN s |-> F(s[i]) ]

\* prev.slice(a, b)
slice(prev, a, b) == SubSeq(prev, a + 1, Min(b, Len(prev)))

\* new Date().toLocaleTimeString(): the time of day, to the second
toLocaleTimeString(t) == (t % MsPerDay) \div MsPerSecond

logEntry(job, t) == [time |-> toLocaleTimeString(t), name |-> job.name]

\* [entry, ...prev.slice(0, 9)]
prependKeepTen(entry, prev) == <<entry>> \o slice(prev, 0, SliceEnd + 1)
appendAtEnd(entry, prev) == slice(prev, 0, SliceEnd) \o <<entry>>
prepend(entry, prev) == <<entry>> \o slice(prev, 0, SliceEnd)

\* job.is_active && job.next_run && new Date(job.next_run) <= now
isDue(job, t) == job.is_active /\ job.next_run # NoValue /\ job.next_run <= t

evalIdle == rule = emptyForm /\ refTime = StartTime /\ runs = <<>>

\* the component is mounted at instant t: both effects have run (fetchJobs is
\* in flight, the interval is set), the store holds `rows`
MountedAt(rows, t) ==
    /\ now = t
    /\ timerDue = t + ScanPeriod
    /\ table = rows
    /\ nextId = Len(rows) + 1
    /\ job_executions = EmptyBag
    /\ jobs = <<>>
    /\ executions = <<>>
    /\ newJob = emptyForm
    /\ loading = FALSE
    /\ creating = <<>>
    /\ execs = EmptyBag
    /\ fetches = One(selectTask)
    /\ toggles = EmptyBag
    /\ deletes = EmptyBag
    /\ fired = {}

Mounted(rows) == MountedAt(rows, StartTime)

Init == Mounted(<<>>) /\ evalIdle

\* ------------------------------------------------------------ the clock
Advance ==
    /\ \E t \in Times : t > now /\ now' = t
    /\ UNCHANGED <<timerDue, storeVars, uiVars, taskVars, fired, evalVars>>

\* ------------------------------------------- the row createJob inserts
newRow(form, t) ==
    [id |-> NoValue, name |-> form.name, type |-> form.type,
     minute |-> form.minute, hour |-> form.hour,
     day_of_week |-> form.day_of_week, is_active |-> TRUE,
     next_run |-> calculateNextRun(form, t), last_run |-> NoValue]

\* !newJob.name
nameNeverMissing(form) == FALSE
nameMissing(form) == form.name = ""

\* ------------------------------------------------- the inputs of the form
\* onChange of Job Name: setNewJob(prev => ({ ...prev, name }))
SetName(v) ==
    /\ newJob' = [newJob EXCEPT !.name = v]
    /\ UNCHANGED <<now, timerDue, storeVars, jobs, executions, loading,
                   taskVars, fired, evalVars>>

\* onValueChange of Schedule Type: the type is set and minute, hour and
\* day_of_week are emptied
SetType(v) ==
    /\ newJob' = [newJob EXCEPT !.type = v, !.minute = NoValue, !.hour = NoValue,
                                !.day_of_week = NoValue]
    /\ UNCHANGED <<now, timerDue, storeVars, jobs, executions, loading,
                   taskVars, fired, evalVars>>

\* onChange of Minute (shown for every type): parseInt(value) || 0
SetMinute(text) ==
    /\ newJob' = [newJob EXCEPT !.minute = parseIntOrZero(text)]
    /\ UNCHANGED <<now, timerDue, storeVars, jobs, executions, loading,
                   taskVars, fired, evalVars>>

\* onChange of Hour (shown for daily and weekly): parseInt(value) || 0
SetHour(text) ==
    /\ newJob.type \in {"daily", "weekly"}
    /\ newJob' = [newJob EXCEPT !.hour = parseIntOrZero(text)]
    /\ UNCHANGED <<now, timerDue, storeVars, jobs, executions, loading,
                   taskVars, fired, evalVars>>

\* onValueChange of Day of Week (shown for weekly): parseInt(value)
SetDayOfWeek(v) ==
    /\ newJob.type = "weekly"
    /\ newJob' = [newJob EXCEPT !.day_of_week = v]
    /\ UNCHANGED <<now, timerDue, storeVars, jobs, executions, loading,
                   taskVars, fired, evalVars>>

\* ------------------------------------------------------------- createJob
\* createJob is called with no name in the form:
\* if (!newJob.name) { toast 'Job name is required'; return; }
CreateJobRejected ==
    /\ nameMissing(newJob)
    /\ UNCHANGED vars

\* Create Job is clicked (the button is disabled while loading or without a
\* name): setLoading(true); calculateNextRun(newJob); the insert is sent
CreateJobClick ==
    /\ ~loading
    /\ nextId <= MaxJobs
    /\ ~nameMissing(newJob)
    /\ loading' = TRUE
    /\ creating' = <<[pc |-> "insert", row |-> newRow(newJob, now)]>>
    /\ UNCHANGED <<now, timerDue, storeVars, jobs, executions, newJob,
                   execs, fetches, toggles, deletes, fired, evalVars>>

\* the store inserts the row and gives it its id
CreateJobInsertOk ==
    /\ creating # <<>>
    /\ creating[1].pc = "insert"
    /\ LET row == [creating[1].row EXCEPT !.id = nextId]
       IN  /\ table' = <<row>> \o table
           /\ creating' = <<[pc |-> "response", row |-> row]>>
    /\ nextId' = nextId + 1
    /\ UNCHANGED <<now, timerDue, job_executions, uiVars, execs, fetches,
                   toggles, deletes, fired, evalVars>>

\* if (error) toast 'Failed to create job'; setLoading(false)
CreateJobInsertError ==
    /\ creating # <<>>
    /\ creating[1].pc = "insert"
    /\ creating' = <<>>
    /\ loading' = FALSE
    /\ UNCHANGED <<now, timerDue, storeVars, jobs, executions, newJob, execs,
                   fetches, toggles, deletes, fired, evalVars>>

\* toast 'Job created successfully'; setJobs(prev => [data, ...prev]);
\* setNewJob({type:'hourly'}); setLoading(false)
CreateJobResponse ==
    /\ creating # <<>>
    /\ creating[1].pc = "response"
    /\ jobs' = <<creating[1].row>> \o jobs
    /\ timerDue' = now + ScanPeriod
    /\ newJob' = emptyForm
    /\ loading' = FALSE
    /\ creating' = <<>>
    /\ UNCHANGED <<now, storeVars, executions, execs, fetches, toggles,
                   deletes, fired, evalVars>>

\* ------------------------------------------- toggleJobStatus / deleteJob
\* the asynchronous calls in flight
inFlight ==
    BagCardinality(execs) + BagCardinality(fetches) + BagCardinality(toggles)
        + BagCardinality(deletes)

\* onClick={() => toggleJobStatus(job.id, job.is_active)}: update is sent
ToggleClick(i) ==
    /\ inFlight < MaxTasks
    /\ toggles' = toggles (+) One([id |-> jobs[i].id, is_active |-> ~jobs[i].is_active])
    /\ UNCHANGED <<now, timerDue, storeVars, uiVars, creating, execs, fetches,
                   deletes, fired, evalVars>>

setActiveClearNext(rows, id, active) ==
    [ k \in DOMAIN rows |->
        IF rows[k].id = id
        THEN [rows[k] EXCEPT !.is_active = active,
                             !.next_run = IF active THEN @ ELSE NoValue]
        ELSE rows[k] ]
setActiveMovesToFront(rows, id, active) ==
    SelectSeq([ k \in DOMAIN rows |-> [rows[k] EXCEPT !.is_active = active] ],
              LAMBDA r : r.id = id)
        \o SelectSeq(rows, LAMBDA r : r.id # id)
setActive(rows, id, active) ==
    [ k \in DOMAIN rows |->
        IF rows[k].id = id THEN [rows[k] EXCEPT !.is_active = active] ELSE rows[k] ]

\* update({ is_active: !isActive }).eq('id', jobId) is applied; fetchJobs()
ToggleUpdated(t) ==
    /\ BagIn(t, toggles)
    /\ table' = setActive(table, t.id, t.is_active)
    /\ toggles' = toggles (-) One(t)
    /\ fetches' = fetches (+) One(selectTask)
    /\ UNCHANGED <<now, timerDue, nextId, job_executions, uiVars, creating,
                   execs, deletes, fired, evalVars>>

\* onClick={() => deleteJob(job.id)}: the delete is sent
DeleteClick(i) ==
    /\ inFlight < MaxTasks
    /\ deletes' = deletes (+) One([id |-> jobs[i].id])
    /\ UNCHANGED <<now, timerDue, storeVars, uiVars, creating, execs, fetches,
                   toggles, fired, evalVars>>

withoutNothing(rows, id) == rows
without(rows, id) == SelectSeq(rows, LAMBDA r : r.id # id)

\* delete().eq('id', jobId) is applied; fetchJobs()
DeleteDone(d) ==
    /\ BagIn(d, deletes)
    /\ table' = without(table, d.id)
    /\ deletes' = deletes (-) One(d)
    /\ fetches' = fetches (+) One(selectTask)
    /\ UNCHANGED <<now, timerDue, nextId, job_executions, uiVars, creating,
                   execs, toggles, fired, evalVars>>

\* -------------------------------------------------------------- fetchJobs
\* select('*').order('created_at', { ascending: false }) reads the table
FetchSelect(f) ==
    /\ BagIn(f, fetches)
    /\ f.pc = "select"
    /\ fetches' = (fetches (-) One(f)) (+) One([pc |-> "response", data |-> table])
    /\ UNCHANGED <<now, timerDue, storeVars, uiVars, creating, execs, toggles,
                   deletes, fired, evalVars>>

\* the select fails: data is null, and setJobs(data || []) empties the list
FetchError(f) ==
    /\ BagIn(f, fetches)
    /\ f.pc = "select"
    /\ fetches' = (fetches (-) One(f)) (+) One([pc |-> "response", data |-> <<>>])
    /\ UNCHANGED <<now, timerDue, storeVars, uiVars, creating, execs, toggles,
                   deletes, fired, evalVars>>

\* setJobs(data || []); the effect on [jobs] clears and refired the interval
FetchReturn(f) ==
    /\ BagIn(f, fetches)
    /\ f.pc = "response"
    /\ jobs' = f.data
    /\ timerDue' = now + ScanPeriod
    /\ fetches' = fetches (-) One(f)
    /\ UNCHANGED <<now, storeVars, executions, newJob, loading, creating,
                   execs, toggles, deletes, fired, evalVars>>

\* ---------------------------------------------------------------- the scan
dueJobs == SelectSeq(jobs, LAMBDA j : isDue(j, now))

execTask(job) ==
    [job |-> job, pc |-> "action", last_run |-> NoValue, next_run |-> NoValue]

occurrence(job) == <<job.id, job.next_run>>

\* the interval callback: jobs.forEach(job => { if (due) executeJob(job) })
Scan ==
    /\ now >= timerDue
    /\ inFlight + Len(dueJobs) <= MaxTasks
    /\ timerDue' = now + ScanPeriod
    /\ execs' = execs (+) BagOfSeq(MapSeq(dueJobs, execTask))
    /\ fired' = fired \cup Range(MapSeq(dueJobs, occurrence))
    /\ UNCHANGED <<now, storeVars, uiVars, creating, fetches, toggles, deletes,
                   evalVars>>

\* -------------------------------------------------------------- executeJob
\* result.success: the log gets its line, the job_executions insert is sent
ExecActionSucceeds(e) ==
    /\ BagIn(e, execs)
    /\ e.pc = "action"
    /\ executions' = prepend(logEntry(e.job, now), executions)
    /\ execs' = (execs (-) One(e)) (+) One([e EXCEPT !.pc = "insert"])
    /\ UNCHANGED <<now, timerDue, storeVars, jobs, newJob, loading,
                   creating, fetches, toggles, deletes, fired, evalVars>>

\* result.success is false, or fetch / response.json() throws (caught)
ExecActionFailsAbortsAll(e, how) ==
    /\ BagIn(e, execs)
    /\ e.pc = "action"
    /\ how \in {"failure", "throw"}
    /\ execs' = EmptyBag
    /\ UNCHANGED <<now, timerDue, storeVars, uiVars, creating, fetches, toggles,
                   deletes, fired, evalVars>>
ExecActionFails(e, how) ==
    /\ BagIn(e, execs)
    /\ e.pc = "action"
    /\ how \in {"failure", "throw"}
    /\ execs' = execs (-) One(e)
    /\ UNCHANGED <<now, timerDue, storeVars, uiVars, creating, fetches, toggles,
                   deletes, fired, evalVars>>

\* the milliseconds the clock can move on between two readings that follow
\* one another in a handler; NoTick: the two readings are the same
ClockTicks == {0, 1}
NoTick == {0}

\* The job_executions row is in; calculateNextRun(job) reads the clock, then
\* last_run: new Date() reads it again, `tick` milliseconds later; the
\* update is sent.
ExecLogged(e, tick) ==
    /\ BagIn(e, execs)
    /\ e.pc = "insert"
    /\ tick \in ClockTicks
    /\ now' = now + tick
    /\ job_executions' = job_executions (+) One(e.job.id)
    /\ execs' = (execs (-) One(e)) (+)
                One([e EXCEPT !.pc = "update", !.last_run = now + tick,
                              !.next_run = calculateNextRun(e.job, now)])
    /\ UNCHANGED <<timerDue, table, nextId, uiVars, creating, fetches,
                   toggles, deletes, fired, evalVars>>

recordRunAsDispatched(rows, id, last, next) ==
    [ k \in DOMAIN rows |->
        IF rows[k].id = id
        THEN [rows[k] EXCEPT !.last_run = last, !.next_run = next,
                             !.is_active = TRUE]
        ELSE rows[k] ]
recordRun(rows, id, last, next) ==
    [ k \in DOMAIN rows |->
        IF rows[k].id = id
        THEN [rows[k] EXCEPT !.last_run = last, !.next_run = next]
        ELSE rows[k] ]

\* update({ last_run, next_run }).eq('id', job.id) is applied; fetchJobs()
ExecUpdatedInTurn(e) ==
    /\ BagIn(e, execs)
    /\ e.pc = "update"
    /\ \A x \in BagToSet(execs) : x.job.id >= e.job.id
    /\ table' = recordRun(table, e.job.id, e.last_run, e.next_run)
    /\ execs' = execs (-) One(e)
    /\ fetches' = fetches (+) One(selectTask)
    /\ UNCHANGED <<now, timerDue, nextId, job_executions, uiVars, creating,
                   toggles, deletes, fired, evalVars>>
ExecUpdated(e) ==
    /\ BagIn(e, execs)
    /\ e.pc = "update"
    /\ table' = recordRun(table, e.job.id, e.last_run, e.next_run)
    /\ execs' = execs (-) One(e)
    /\ fetches' = fetches (+) One(selectTask)
    /\ UNCHANGED <<now, timerDue, nextId, job_executions, uiVars, creating,
                   toggles, deletes, fired, evalVars>>

\* ------------------------------------------------------- the specification
\* executeJob past its dispatch, the clock moving on by one of `ticks`
\* between the two readings
ExecStep(ticks) ==
    \/ \E e \in BagToSet(execs) : ExecActionSucceeds(e)
    \/ \E e \in BagToSet(execs), how \in {"failure", "throw"} : ExecActionFails(e, how)
    \/ \E e \in BagToSet(execs), tick \in ticks : ExecLogged(e, tick)
    \/ \E e \in BagToSet(execs) : ExecUpdated(e)

\* createJob, from the click to its return
CreateStep ==
    \/ CreateJobRejected
    \/ CreateJobClick
    \/ CreateJobInsertOk
    \/ CreateJobInsertError
    \/ CreateJobResponse

\* the job list's buttons, the store's answers, fetchJobs, the scan and
\* executeJob
ListStep(ticks) ==
    \/ \E i \in DOMAIN jobs : ToggleClick(i)
    \/ \E t \in BagToSet(toggles) : ToggleUpdated(t)
    \/ \E i \in DOMAIN jobs : DeleteClick(i)
    \/ \E d \in BagToSet(deletes) : DeleteDone(d)
    \/ \E f \in BagToSet(fetches) : FetchSelect(f)
    \/ \E f \in BagToSet(fetches) : FetchError(f)
    \/ \E f \in BagToSet(fetches) : FetchReturn(f)
    \/ Scan
    \/ ExecStep(ticks)

\* the schedule inputs of the form
ScheduleInput ==
    \/ \E v \in Types : SetType(v)
    \/ \E text \in MinuteTexts : SetMinute(text)
    \/ \E text \in HourTexts : SetHour(text)
    \/ \E v \in DayValues : SetDayOfWeek(v)

Next ==
    \/ Advance
    \/ \E v \in Names : SetName(v)
    \/ ScheduleInput
    \/ CreateStep
    \/ ListStep(ClockTicks)

Spec == Init /\ [][Next]_vars

\* ------------------------------------------ the page with hourly jobs
\* The user gives each job a name and leaves the schedule inputs as they
\* are: every job created runs hourly at minute 0, the first time at
\* 11:00:00.  The two clock readings of an execution are the same.
NextPage ==
    \/ Advance
    \/ \E v \in Names : SetName(v)
    \/ CreateStep
    \/ ListStep(NoTick)

SpecPage == Init /\ [][NextPage]_vars

\* ------------------------------------------ the form
\* The user fills in the form and creates jobs, all within the instant the
\* page is mounted at; the list is left alone.
NextForm ==
    \/ \E v \in Names : SetName(v)
    \/ ScheduleInput
    \/ CreateStep
    \/ \E f \in BagToSet(fetches) : FetchSelect(f)
    \/ \E f \in BagToSet(fetches) : FetchReturn(f)

SpecForm == Init /\ [][NextForm]_vars

\* ------------------------------------------ the page left to itself
\* The store already holds two hourly jobs, created in an earlier session and
\* due at 11:00:00.  Nobody touches the page, the clock is read once an hour
\* at hh:00:00 and does not tick within a handler, every call is answered
\* within the hour, and the job action and the select succeed.
storedJob(id, name) ==
    [id |-> id, name |-> name, type |-> "hourly", minute |-> NoValue,
     hour |-> NoValue, day_of_week |-> NoValue, is_active |-> TRUE,
     next_run |-> StartTime + ScanPeriod, last_run |-> NoValue]

HourlyTimes == { StartTime + ScanPeriod + k * MsPerHour : k \in 0..MaxLogHours }

AdvanceHourly ==
    /\ inFlight = 0
    /\ \E t \in HourlyTimes : t > now /\ t <= now + MsPerHour /\ now' = t
    /\ UNCHANGED <<timerDue, storeVars, uiVars, taskVars, fired, evalVars>>

InitUnattended == Mounted(<<storedJob(2, "b"), storedJob(1, "a")>>) /\ evalIdle

NextUnattended ==
    \/ AdvanceHourly
    \/ \E f \in BagToSet(fetches) : FetchSelect(f)
    \/ \E f \in BagToSet(fetches) : FetchReturn(f)
    \/ Scan
    \/ \E e \in BagToSet(execs) : ExecActionSucceeds(e)
    \/ \E e \in BagToSet(execs) : ExecLogged(e, 0)
    \/ \E e \in BagToSet(execs) : ExecUpdated(e)

SpecUnattended == InitUnattended /\ [][NextUnattended]_vars

\* ------------------------------------- the interval under store mutations
\* The store holds two jobs that are already due when the page is mounted;
\* job 1 is left alone, job 2 is switched off and on at will.
\* Times are kept relative to the current instant: the clock reading stays
\* where it is and the passing of TickStep milliseconds moves the interval's
\* next callback that much closer.  Time does not pass beyond the instant
\* the callback is due at without the callback running.  A job that is past
\* due stays past due however much time passes.
TickStep == ScanPeriod \div TicksPerScan

dueJob(id, name) == [storedJob(id, name) EXCEPT !.next_run = StartTime]

Tick ==
    /\ timerDue > now
    /\ timerDue' = timerDue - TickStep
    /\ UNCHANGED <<now, storeVars, uiVars, taskVars, fired, evalVars>>

InitLive == Mounted(<<dueJob(2, "b"), dueJob(1, "a")>>) /\ evalIdle

NextLive ==
    \/ Tick
    \/ \E i \in DOMAIN jobs : jobs[i].id # 1 /\ ToggleClick(i)
    \/ \E t \in BagToSet(toggles) : ToggleUpdated(t)
    \/ \E f \in BagToSet(fetches) : FetchSelect(f)
    \/ \E f \in BagToSet(fetches) : FetchReturn(f)
    \/ Scan
    \/ ExecStep(NoTick)

\* time passes; a callback that is due again and again does run; the store
\* and the backend answer every call
FairLive ==
    /\ WF_vars(Tick)
    /\ SF_vars(Scan)
    /\ WF_vars(\E t \in BagToSet(toggles) : ToggleUpdated(t))
    /\ WF_vars(\E f \in BagToSet(fetches) : FetchSelect(f))
    /\ WF_vars(\E f \in BagToSet(fetches) : FetchReturn(f))
    /\ WF_vars(ExecStep(NoTick))

SpecLive == InitLive /\ [][NextLive]_vars /\ FairLive

\* ------------------------------------------------- resuming paused jobs
\* The store holds two jobs paused in an earlier session: job 1 with its
\* next_run at 11:00:00, which the clock is about to pass, and job 2 with its
\* next_run an hour later.  The user toggles them; nothing is created or
\* deleted.  The two clock readings of an execution are the same.
pausedJob(id, name, next) ==
    [storedJob(id, name) EXCEPT !.is_active = FALSE, !.next_run = next]

InitResume ==
    /\ Mounted(<<pausedJob(2, "b", StartTime + ScanPeriod + MsPerHour),
                 pausedJob(1, "a", StartTime + ScanPeriod)>>)
    /\ evalIdle

NextResume ==
    \/ Advance
    \/ \E i \in DOMAIN jobs : ToggleClick(i)
    \/ \E t \in BagToSet(toggles) : ToggleUpdated(t)
    \/ \E f \in BagToSet(fetches) : FetchSelect(f)
    \/ \E f \in BagToSet(fetches) : FetchReturn(f)
    \/ Scan
    \/ ExecStep(NoTick)

SpecResume == InitResume /\ [][NextResume]_vars

\* ------------------------------- the clock ticking between two readings
\* The store holds one job whose next_run, 10:00:00, is long past.  The page
\* is mounted at 10:59:49.999 and the clock is read every ten seconds from
\* then on, and a millisecond later when it ticks between the two readings of
\* an execution: at 10:59:59.999 the first reading is just before the full
\* hour and the second can be the full hour.  The user toggles the job;
\* nothing is created or deleted.
TickStart == StartTime - 1

overdueJob == [storedJob(1, "a") EXCEPT !.next_run = StartTime + ScanPeriod - MsPerHour]

AdvanceTick ==
    /\ now < TickStart + MaxInstant * ScanPeriod
    /\ now' = now + ScanPeriod
    /\ UNCHANGED <<timerDue, storeVars, uiVars, taskVars, fired, evalVars>>

InitTick == MountedAt(<<overdueJob>>, TickStart) /\ evalIdle

NextTick ==
    \/ AdvanceTick
    \/ \E i \in DOMAIN jobs : ToggleClick(i)
    \/ \E t \in BagToSet(toggles) : ToggleUpdated(t)
    \/ \E f \in BagToSet(fetches) : FetchSelect(f)
    \/ \E f \in BagToSet(fetches) : FetchReturn(f)
    \/ Scan
    \/ ExecStep(ClockTicks)

SpecTick == InitTick /\ [][NextTick]_vars

\* ------------------------------------------- the recurrence evaluator alone
\* calculateNextRun applied to a rule at a reference time, then to its own
\* results.
EvalMinutes == {NoValue, 0, 30, 59}
EvalHours == {NoValue, 9, 23}
EvalDays == {NoValue} \cup (0..6)

Rules ==
    { [emptyForm EXCEPT !.minute = m] : m \in EvalMinutes }
    \cup { [emptyForm EXCEPT !.type = "daily", !.hour = h, !.minute = m] :
             h \in EvalHours, m \in EvalMinutes }
    \cup { [emptyForm EXCEPT !.type = "weekly", !.day_of_week = d, !.hour = h,
                             !.minute = m] :
             d \in EvalDays, h \in EvalHours, m \in {NoValue, 30} }

\* Thursday, Friday and Saturday of the epoch week; on, just after and just
\* before a minute boundary
RefTimes ==
    { d * MsPerDay + h * MsPerHour + m * MsPerMinute + ms :
        d \in 0..2, h \in {0, 9, 23}, m \in {0, 30, 45, 59},
        ms \in {0, 1, MsPerMinute - 1} }

Last(s) == s[Len(s)]

InitEval ==
    /\ Mounted(<<>>)
    /\ rule \in Rules
    /\ refTime \in RefTimes
    /\ runs = <<>>

Evaluate ==
    /\ Len(runs) < MaxIter
    /\ runs' = Append(runs, calculateNextRun(rule, IF runs = <<>> THEN refTime ELSE Last(runs)))
    /\ UNCHANGED <<now, timerDue, storeVars, uiVars, taskVars, fired, rule, refTime>>

NextEval == Evaluate

SpecNextRun == InitEval /\ [][NextEval]_vars

\* ================================================================ claims
\* ---- the scheduler loop (SpecPage)
execsOf(id) == { e \in BagToSet(execs) : e.job.id = id }
inFlightOf(id) == BagCardinality([ e \in execsOf(id) |-> CopiesIn(e, execs) ])
storedIds == { table[k].id : k \in DOMAIN table }
storedRow(id) == CHOOSE r \in Range(table) : r.id = id

\* a step of the scan that starts executions
Dispatching == BagCardinality(execs') > BagCardinality(execs)

\* C1 (fails on the code): at most one execution of a job is in flight; a
\* scan does not dispatch a job whose earlier execution has not completed.
C1_AtMostOneInFlight == \A id \in 1..MaxJobs : inFlightOf(id) <= 1

\* C2 (fails on the code): each due occurrence <<job, nextRun>> is dispatched
\* once; a scan starts no execution for an occurrence dispatched before, nor
\* two for one occurrence.
C2_OncePerOccurrence ==
    [][Dispatching =>
        /\ \A k \in DOMAIN dueJobs : occurrence(dueJobs[k]) \notin fired
        /\ \A k, m \in DOMAIN dueJobs :
               occurrence(dueJobs[k]) = occurrence(dueJobs[m]) => k = m]_vars

\* C3 (fails on the code): a scan starts no execution of a job whose stored
\* is_active is false at the moment of the scan.
C3_NeverDispatchedInactive ==
    [][Dispatching =>
        \A k \in DOMAIN dueJobs :
            dueJobs[k].id \in storedIds => storedRow(dueJobs[k].id).is_active]_vars

\* C4 (fails on the code): when a dispatched job's action fails, the log gains
\* exactly one record for that job and the execution goes on to set last_run
\* and advance next_run.
C4_FailureRecorded ==
    [][\A e \in BagToSet(execs), how \in {"failure", "throw"} :
        ExecActionFails(e, how) =>
            /\ Len(executions') = Len(executions) + 1
            /\ executions'[1].name = e.job.name
            /\ \E x \in BagToSet(execs') : x.job = e.job /\ x.pc # "action"]_vars

\* ---- the recurrence evaluator (SpecNextRun)
\* x matches the rule: Hourly minute-of-hour = minute; Daily time-of-day =
\* hour:minute; Weekly day-of-week = dayOfWeek and time-of-day = hour:minute.
Matches(r, x) ==
    IF r.type = "hourly" THEN x % MsPerHour = OrZero(r.minute) * MsPerMinute
    ELSE /\ x % MsPerDay = OrZero(r.hour) * MsPerHour + OrZero(r.minute) * MsPerMinute
         /\ r.type = "weekly" => getDay(x) = OrZero(r.day_of_week)

Period(r) ==
    IF r.type = "hourly" THEN MsPerHour
    ELSE IF r.type = "daily" THEN MsPerDay
    ELSE DaysPerWeek * MsPerDay

\* the instants on a minute boundary strictly between t and r
MinutesBetween(t, r) ==
    { m * MsPerMinute : m \in ((t \div MsPerMinute) + 1)..((r - 1) \div MsPerMinute) }

evalArg(i) == IF i = 1 THEN refTime ELSE runs[i - 1]

\* C5: nextRun(rule, t) is strictly after t, and when t itself matches the
\* rule (the candidate equals t) the result is one full period later.
C5_StrictlyAfter ==
    \A i \in DOMAIN runs :
        /\ runs[i] > evalArg(i)
        /\ Matches(rule, evalArg(i)) => runs[i] = evalArg(i) + Period(rule)

C5_Witness == runs # <<>> /\ Matches(rule, refTime) /\ rule.type = "weekly"

hourlyAt30 == [emptyForm EXCEPT !.minute = 30]
wednesdayAt9 == [emptyForm EXCEPT !.type = "weekly", !.day_of_week = 3, !.hour = 9]

\* C6: nextRun(rule, t) matches the rule and no instant strictly between t
\* and it does; Hourly{30} at 10:45 gives 11:30, Weekly{Wed, 9:00} at Monday
\* 08:00 gives Wednesday 09:00 of that week.
C6_EarliestMatch ==
    /\ runs # <<>> =>
           /\ Matches(rule, runs[1])
           /\ runs[1] > refTime
           /\ \A x \in MinutesBetween(refTime, runs[1]) : ~Matches(rule, x)
    /\ calculateNextRun(hourlyAt30, 10 * MsPerHour + 45 * MsPerMinute)
           = 11 * MsPerHour + 30 * MsPerMinute
    /\ calculateNextRun(wednesdayAt9, 4 * MsPerDay + 8 * MsPerHour)
           = 6 * MsPerDay + 9 * MsPerHour

\* a weekly rule for the very day of the reference time, later that day
C6_Witness ==
    /\ runs # <<>>
    /\ rule.type = "weekly"
    /\ OrZero(rule.day_of_week) = getDay(refTime)
    /\ runs[1] - refTime < MsPerDay
    /\ ~Matches(rule, refTime)

\* C7: iterating nextRun on its own output gives results exactly one period
\* apart.
C7_EvenlySpaced ==
    \A i \in DOMAIN runs : i > 1 => runs[i] - runs[i - 1] = Period(rule)

C7_Witness == Len(runs) >= 2 /\ rule.type = "daily" /\ ~Matches(rule, refTime)

\* ---- the execution log (SpecUnattended)
\* C8: the execution log never holds more than 10 records.
C8_LogWithinCap == Len(executions) <= 10

\* the log is full and more than 10 executions have been logged
C8_Witness == Len(executions) = 10 /\ BagCardinality(job_executions) > 10

NewestFirst(log) ==
    \A i, k \in DOMAIN log : i < k => log[i].time >= log[k].time

\* C9: an append puts the new record at the front and keeps the previous
\* records in their order behind it, dropping only the last one when the log
\* already held 10; the log stays ordered newest-first.
C9_PrependEvictOldest ==
    [][executions' # executions =>
        /\ \E e \in BagToSet(execs) :
               e.pc = "action" /\ Head(executions') = logEntry(e.job, now)
        /\ Len(executions') = Min(Len(executions) + 1, 10)
        /\ Tail(executions') = SubSeq(executions, 1, Len(executions') - 1)
        /\ NewestFirst(executions')]_vars

\* twelve executions have been logged: the log is full, holds records of
\* both jobs, and the two records of the first hour have been evicted
C9_Witness ==
    /\ BagCardinality(job_executions) = 12
    /\ Len(executions) = 10
    /\ executions[10].time > toLocaleTimeString(StartTime + ScanPeriod)
    /\ \E i, k \in DOMAIN executions : executions[i].name # executions[k].name

\* ---- createJob (SpecForm)
\* C10 as claimed (fails on the code): a createJob call with a non-empty name
\* has added exactly one job when it returns.
C10_CreateAlwaysAdds ==
    [][(loading /\ ~loading') => jobs' = <<creating[1].row>> \o jobs]_vars

\* C10 as amended: no insert is sent for an empty name, and sending one changes
\* neither the jobs nor the log; the row sent is active, has last_run unset
\* and next_run = nextRun(recurrence, time of the call), strictly after the
\* time of the call; when the insert succeeds exactly that row is added, at
\* the front of the store's table and then of the job list; when the insert
\* fails the call returns with the job list and the table unchanged.
C10_Create ==
    [][/\ (creating = <<>> /\ creating' # <<>>) =>
              /\ newJob.name # ""
              /\ creating'[1].row.name = newJob.name
              /\ creating'[1].row.type = newJob.type
              /\ creating'[1].row.is_active
              /\ creating'[1].row.last_run = NoValue
              /\ creating'[1].row.next_run = calculateNextRun(newJob, now)
              /\ creating'[1].row.next_run > now
              /\ Matches(newJob, creating'[1].row.next_run)
              /\ UNCHANGED <<table, jobs, executions>>
       /\ Len(table') > Len(table) =>
              /\ creating # <<>>
              /\ table' = <<[creating[1].row EXCEPT !.id = nextId]>> \o table
              /\ creating'[1].row = Head(table')
              /\ UNCHANGED <<jobs, executions>>
       /\ (loading /\ ~loading') =>
              \/ /\ creating[1].pc = "response"
                 /\ jobs' = <<creating[1].row>> \o jobs
                 /\ UNCHANGED <<table, executions>>
              \/ /\ creating[1].pc = "insert"
                 /\ UNCHANGED <<table, jobs, executions>>
       /\ \A k \in DOMAIN table' : table'[k].name # ""
       /\ \A k \in DOMAIN jobs' : jobs'[k].name # ""]_vars

\* a created weekly job, not due before the Wednesday after the mount, is in
\* the store and in the job list, and the call has returned
C10_Witness ==
    /\ ~loading
    /\ newJob = emptyForm
    /\ table # <<>>
    /\ \E k \in DOMAIN jobs :
           /\ jobs[k] \in Range(table)
           /\ jobs[k].type = "weekly"
           /\ jobs[k].day_of_week \in DayValues
           /\ jobs[k].hour \in HourTexts
           /\ jobs[k].is_active
           /\ jobs[k].last_run = NoValue
           /\ jobs[k].next_run > StartTime + DaysPerWeek * MsPerDay - MsPerDay - MsPerDay

\* ---- deleteJob (SpecPage)
idsOf(rows) == { rows[k].id : k \in DOMAIN rows }

\* the rows of `rows` other than the one with this id, in their order
IsRestOf(rest, rows, id) ==
    /\ id \notin idsOf(rest)
    /\ Len(rest) = Cardinality({ k \in DOMAIN rows : rows[k].id # id })
    /\ \A k \in DOMAIN rows :
           rows[k].id # id =>
               rest[Cardinality({ m \in 1..k : rows[m].id # id })] = rows[k]

\* C11: when the store applies a delete for an id it does not hold (the job
\* was already deleted), nothing changes: the table, the job list and the
\* execution log are as before; when it holds the id, exactly that row is
\* removed and every other row is kept, unchanged and in its place.
C11_DeleteIdempotent ==
    [][\A d \in BagToSet(deletes) :
          (deletes' = deletes (-) One(d)) =>
              /\ d.id \notin storedIds => table' = table
              /\ d.id \in storedIds =>
                     /\ Len(table') = Len(table) - 1
                     /\ IsRestOf(table', table, d.id)
              /\ UNCHANGED <<jobs, executions, job_executions>>]_vars

\* job 1 was deleted from the store, leaving job 2, and a second delete of
\* job 1, clicked in the list not yet refreshed, is on its way to the store
C11_Witness ==
    /\ nextId = 3
    /\ idsOf(table) = {2}
    /\ BagIn([id |-> 1], deletes)

\* ---- who writes last_run / next_run (SpecPage)
rowOf(rows, id) == CHOOSE r \in Range(rows) : r.id = id

\* C12: a stored job's last_run and next_run change only in the step that
\* applies the update of an execution of that very job; every other step (an
\* insert, a toggle's update in either direction, a delete, of this or of
\* another job) leaves them as they were.
C12_OnlyCompletionWritesRuns ==
    [][\A id \in idsOf(table) \cap idsOf(table') :
          (\/ rowOf(table', id).last_run # rowOf(table, id).last_run
           \/ rowOf(table', id).next_run # rowOf(table, id).next_run) =>
              \E e \in BagToSet(execs) :
                  /\ e.pc = "update"
                  /\ e.job.id = id
                  /\ execs' = execs (-) One(e)]_vars

\* a job has run and has been switched off: it is stored inactive with the
\* last_run and the next_run its execution wrote
C12_Witness ==
    \E k \in DOMAIN table :
        /\ ~table[k].is_active
        /\ table[k].last_run # NoValue
        /\ table[k].next_run > table[k].last_run

\* ---- faults of the job action (SpecPage)
\* C13: a scan starts an execution for every job of its list that is active
\* and due, whatever becomes of the others; and the step in which an
\* execution ends without a record (its action has failed or thrown) ends
\* that one execution only: every other execution in flight stays in flight,
\* the interval stays set for the same instant, and the job list, the store
\* and the log are untouched.
C13_FaultIsolation ==
    [][/\ Dispatching =>
              \A k \in DOMAIN jobs :
                  isDue(jobs[k], now) =>
                      CopiesIn(execTask(jobs[k]), execs')
                          > CopiesIn(execTask(jobs[k]), execs)
       /\ (BagCardinality(execs') < BagCardinality(execs) /\ fetches' = fetches) =>
              /\ \E e \in BagToSet(execs) :
                     /\ e.pc = "action"
                     /\ CopiesIn(e, execs') = CopiesIn(e, execs) - 1
                     /\ \A x \in BagToSet(execs) :
                            x # e => CopiesIn(x, execs') = CopiesIn(x, execs)
              /\ UNCHANGED <<timerDue, jobs, table, executions,
                             job_executions>>]_vars

\* both jobs were dispatched for 11:00:00; the execution of job 1 has ended
\* in failure (nothing of it is recorded, none is in flight) and the
\* execution of job 2 has run to its end and is recorded
C13_Witness ==
    /\ fired = {<<1, StartTime + ScanPeriod>>, <<2, StartTime + ScanPeriod>>}
    /\ execs = EmptyBag
    /\ job_executions = One(2)
    /\ \E k \in DOMAIN table :
           table[k].id = 1 /\ table[k].last_run = NoValue
    /\ \E k \in DOMAIN table :
           table[k].id = 2 /\ table[k].last_run # NoValue

\* ---- no waiting between jobs (SpecPage)
\* C14: nothing an execution does waits for another execution.  Whatever
\* else is in flight, an execution awaiting its action can have it answered,
\* one awaiting its job_executions insert can go on to compute the new
\* next_run, and one awaiting its update can have the store apply it; so a
\* job B dispatched with (or after) a job A whose action never completes can
\* run to its end and have its last_run / next_run written.
C14_NoHeadOfLineBlocking ==
    \A e \in BagToSet(execs) :
        /\ e.pc = "action" => ENABLED ExecActionSucceeds(e)
        /\ e.pc = "insert" => ENABLED ExecLogged(e, 0)
        /\ e.pc = "update" => ENABLED ExecUpdated(e)

\* jobs 1 and 2 were dispatched for 11:00:00; job 1's action has never
\* succeeded and an execution of job 1 still awaits it, while job 2's
\* execution has completed and written job 2's last_run and next_run
C14_Witness ==
    /\ fired = {<<1, StartTime + ScanPeriod>>, <<2, StartTime + ScanPeriod>>}
    /\ \E e \in BagToSet(execs) : e.job.id = 1 /\ e.pc = "action"
    /\ job_executions = One(2)
    /\ \E k \in DOMAIN table :
           /\ table[k].id = 2
           /\ table[k].last_run # NoValue
           /\ table[k].next_run > table[k].last_run

\* ---- deleting with an execution in flight (SpecPage)
\* C15 (fails on the code): a job that was dispatched and has been deleted
\* from the store is never dispatched again: no scan starts an execution for
\* an occurrence dispatched before whose job the store no longer holds.
C15_DeletedNeverDispatched ==
    [][Dispatching =>
        \A k \in DOMAIN dueJobs :
            occurrence(dueJobs[k]) \in fired => dueJobs[k].id \in storedIds]_vars

\* ---- deactivating with an execution in flight (SpecTick)
\* C16: switching a job off does not cancel or corrupt an execution of it in
\* flight.  The step that applies a toggle's update leaves the executions in
\* flight and the log as they are; the step that applies an execution's
\* update writes the last_run the execution read and the next_run it
\* computed, later than the one it was dispatched for, and nothing else: the
\* row keeps the is_active the store holds, even when that differs from the
\* is_active the job had when it was dispatched.
C16_DeactivationInFlight ==
    [][/\ toggles' # toggles => UNCHANGED <<execs, executions, job_executions>>
       /\ \A e \in BagToSet(execs) :
              (e.pc = "update" /\ CopiesIn(e, execs') < CopiesIn(e, execs)
                   /\ e.job.id \in storedIds) =>
                  /\ e.last_run # NoValue
                  /\ e.next_run > e.job.next_run
                  /\ BagIn(e.job.id, job_executions)
                  /\ executions # <<>>
                  /\ e.job.id \in idsOf(table')
                  /\ rowOf(table', e.job.id) =
                         [rowOf(table, e.job.id) EXCEPT !.last_run = e.last_run,
                                                        !.next_run = e.next_run]
                  /\ rowOf(table', e.job.id).is_active
                         = rowOf(table, e.job.id).is_active]_vars

\* job 1 is stored inactive and an execution of job 1 has completed, the
\* clock having ticked from 10:59:59.999 to 11:00:00.000 between its two
\* readings: it is in the log and in job_executions and has written last_run
\* and next_run; the fetchJobs of the toggle and of the execution are both
\* still in flight
C16_Witness ==
    /\ \E k \in DOMAIN table :
           /\ table[k].id = 1
           /\ ~table[k].is_active
           /\ table[k].last_run = StartTime + ScanPeriod
           /\ table[k].next_run = StartTime + ScanPeriod
    /\ job_executions = One(1)
    /\ Len(executions) = 1
    /\ execs = EmptyBag
    /\ toggles = EmptyBag
    /\ BagCardinality(fetches) = 2

\* ---- due jobs fire (SpecLive)
DueInStore(id) == id \in storedIds /\ isDue(storedRow(id), now)

\* C17 (fails on the code): job 1, stored active and due and never toggled or
\* deleted, is eventually dispatched, whatever is done to job 2 meanwhile.
C17_DueJobsFire == DueInStore(1) ~> (execsOf(1) # {} \/ ~DueInStore(1))

\* ---- after an execution completes (SpecTick)
\* C18 (fails on the code): when the store applies the update of an execution
\* of a stored job, the next_run written is after the last_run written and
\* after the time of the execution, and right after that step the job is not
\* due: it is not due in the store, and a scan at that instant would find it
\* not due in its list and would not dispatch it.
C18_ArmedAfterCompletion ==
    [][\A e \in BagToSet(execs) :
          (e.pc = "update" /\ CopiesIn(e, execs') < CopiesIn(e, execs)
               /\ e.job.id \in storedIds) =>
              /\ e.next_run > e.last_run
              /\ rowOf(table', e.job.id).last_run = e.last_run
              /\ rowOf(table', e.job.id).next_run = e.next_run
              /\ rowOf(table', e.job.id).next_run > now'
              /\ \A k \in DOMAIN jobs' :
                     jobs'[k].id = e.job.id => ~isDue(jobs'[k], now')]_vars

\* ---- resuming a paused job (SpecResume)
\* a step of the interval callback, whether or not it dispatches anything
ScanRuns == timerDue' # timerDue /\ fetches' = fetches /\ creating' = creating

\* the scan starts an execution of the k-th job of its list
StartedByScan(k) ==
    CopiesIn(execTask(jobs[k]), execs') > CopiesIn(execTask(jobs[k]), execs)

\* C19 (fails on the code): once the store holds a resumed job, active again
\* with the next_run it was paused with, and that next_run has passed, the
\* next scan dispatches it.
C19_NextScanCatchesUp ==
    [][ScanRuns =>
        \A id \in storedIds :
            (storedRow(id).is_active /\ storedRow(id).next_run <= now) =>
                \E k \in DOMAIN jobs : jobs[k].id = id /\ StartedByScan(k)]_vars

\* ---- toggleJobStatus (SpecPage)
\* C20 (fails on the code): the update of a toggle inverts the is_active the
\* store holds for the job and changes nothing else, so that two toggles in
\* a row, the second clicked before the list was refreshed, leave the stored
\* is_active as it was before the first.
C20_ToggleFlipsStored ==
    [][\A t \in BagToSet(toggles) :
          (CopiesIn(t, toggles') < CopiesIn(t, toggles) /\ t.id \in storedIds) =>
              rowOf(table', t.id) =
                  [rowOf(table, t.id) EXCEPT !.is_active = ~rowOf(table, t.id).is_active]]_vars

\* ---- the order of the job list (SpecPage)
\* ids are given in the order of creation: a later created job has the
\* greater id
CreatedNewestFirst(rows) ==
    \A i, k \in DOMAIN rows : i < k => rows[i].id >= rows[k].id

\* C21: the job list is in newest-first creation order after any sequence of
\* operations.  The rows of the store, as the select returns them, and the
\* list of the page are ordered from the latest created job to the earliest;
\* the store holds no job twice; creating a job puts it at the front, of the
\* store's rows and then of the page's list, before the jobs already there;
\* the updates of toggles and of executions and the deletes keep the stored
\* jobs that remain in their order.
C21_NewestFirst ==
    [][/\ CreatedNewestFirst(table') /\ CreatedNewestFirst(jobs')
       /\ \A i, k \in DOMAIN table' : i # k => table'[i].id # table'[k].id
       /\ Len(table') > Len(table) =>
              /\ Tail(table') = table
              /\ \A k \in DOMAIN table : Head(table').id > table[k].id
       /\ (loading /\ ~loading' /\ jobs' # jobs) =>
              /\ Tail(jobs') = jobs
              /\ Head(jobs') = creating[1].row
              /\ Head(jobs').id = nextId - 1
       /\ Len(table') <= Len(table) =>
              \E drop \in SUBSET idsOf(table) :
                  MapSeq(table', LAMBDA r : r.id)
                      = MapSeq(SelectSeq(table, LAMBDA r : r.id \notin drop),
                               LAMBDA r : r.id)]_vars

\* two jobs, the earlier created one toggled off and run, the later created
\* one still first, in the store and in the refreshed list of the page
C21_Witness ==
    /\ Len(table) = 2
    /\ table[1].id = 2
    /\ table[2].id = 1
    /\ ~table[2].is_active
    /\ table[2].last_run # NoValue
    /\ jobs = table

====
